---- MODULE Spec2Model ----
(***************************************************************************)
(* Model of DeepSeekContentGenerator (src/unnamed/part_000): the adapter   *)
(* between the OpenAI chat-completions shapes and the Gemini content       *)
(* shapes.                                                                 *)
(*                                                                         *)
(*   Spec          convertStreamToGenerator, the streaming re-assembler    *)
(*   SpecMessages  convertToOpenAIMessages, the two-pass history converter *)
(*   SpecResponse  convertToGeminiResponse / convertFinishReason           *)
(*                                                                         *)
(* Text is a sequence of one-character strings.  A JavaScript value that   *)
(* is absent (undefined) or the empty string is the empty sequence where   *)
(* the code only tests it for truthiness.                                  *)
(***************************************************************************)
EXTENDS Integers, Sequences, FiniteSets, TLC

VARIABLES
    \* ---- convertStreamToGenerator ----
    pc,               \* position of the generator: "await" (suspended in the loop),
                      \* "returned", "ended", "failed"; "idle" when it is not running
    buffer,           \* let buffer = ''
    lastFinishReason, \* let lastFinishReason = undefined
    toolCalls,        \* const toolCalls: any[] = []   (sparse array)
    content,          \* local of the last loop iteration: delta?.content
    finishReason,     \* local of the last loop iteration: choice?.finish_reason
    emitted,          \* responses yielded while handling the last chunk
    error,            \* the exception that ended the generator, "" if none
    received,         \* history: every tool-call delta consumed so far
    nChunks,          \* history: number of chunks consumed
    appended,         \* history: the buffer right after the last chunk's text was appended
    lastSignal,       \* history: the latest finish signal a consumed chunk carried
    textIn,           \* history: the text deltas consumed so far, concatenated, and
    textOut,          \* history: the text parts emitted so far, concatenated; both
                      \* without the prefix they have in common
    \* ---- convertToOpenAIMessages ----
    mpc,              \* "idle", "history", "second", "done"
    contents,         \* the argument: Content[]
    toolCallIdMap,    \* Map<string,string>, in insertion order
    functionResponseExists, \* Set<string>
    messages,         \* the result being built
    origin,           \* history: index of the Content each message was built from
    ci,               \* second pass: number of Contents already converted
    \* ---- convertToGeminiResponse ----
    rpc,              \* "idle", "start", "done", "failed"
    response,         \* the argument: OpenAI.Chat.ChatCompletion
    geminiResponse    \* the result

streamVars == <<pc, buffer, lastFinishReason, toolCalls, content, finishReason,
                emitted, error, received, nChunks, appended, lastSignal,
                textIn, textOut>>
messageVars == <<mpc, contents, toolCallIdMap, functionResponseExists, messages,
                 origin, ci>>
responseVars == <<rpc, response, geminiResponse>>
vars == <<streamVars, messageVars, responseVars>>

-----------------------------------------------------------------------------
(* Bounds of the model *)

\* chunks the upstream sequence yields at most: three chunks of 49, 50 and 1
\* characters bring the buffer from 99 to the flush threshold
MaxChunks == 3
\* tool-call deltas carried by the whole stream at most
MaxToolDeltas == 3
\* Parts of a history, over all its Contents, at most
MaxParts == 4
\* tool calls of a non-streaming response at most
MaxResponseCalls == 1

\* buffer.length >= 100
FlushThreshold == 100

-----------------------------------------------------------------------------
(* Text helpers *)

RECURSIVE Rep(_, _)
Rep(c, n) == IF n = 0 THEN <<>> ELSE <<c>> \o Rep(c, n - 1)

\* String.prototype.includes('\n\n')
IncludesParagraphBreak(s) ==
    \E i \in 1..(Len(s) - 1) : s[i] = "\n" /\ s[i + 1] = "\n"

\* JavaScript truthiness of a finish_reason: null, undefined and '' are falsy
UNDEFINED == "<undefined>"
NULL == "<null>"
Truthy(fr) == fr \notin {UNDEFINED, NULL, ""}

-----------------------------------------------------------------------------
(* convertFinishReason *)

convertFinishReasonDefaultOther(fr) ==
    IF fr = NULL \/ fr = UNDEFINED THEN "FINISH_REASON_UNSPECIFIED"
    ELSE CASE fr = "stop" -> "STOP"
           [] fr \in {"length", "max_tokens"} -> "MAX_TOKENS"
           [] fr = "content_filter" -> "SAFETY"
           [] fr \in {"tool_calls", "function_call"} -> "STOP"
           [] OTHER -> "OTHER"

convertFinishReason(fr) ==
    IF fr = NULL \/ fr = UNDEFINED THEN "FINISH_REASON_UNSPECIFIED"
    ELSE CASE fr = "stop" -> "STOP"
           [] fr \in {"length", "max_tokens"} -> "MAX_TOKENS"
           [] fr = "content_filter" -> "SAFETY"
           [] fr \in {"tool_calls", "function_call"} -> "STOP"
           [] OTHER -> "STOP"

-----------------------------------------------------------------------------
(* JSON.parse, over the alphabet the model's argument fragments use:       *)
(* "{" "}" and the digit "1".  The texts of that alphabet that are JSON    *)
(* are "{}" and the non-empty digit strings.                               *)

JsonObject == [type |-> "object", value |-> 0]
JsonNumber(n) == [type |-> "number", value |-> n]

RECURSIVE Decimal(_)
Decimal(s) ==
    IF s = <<>> THEN 0
    ELSE 10 * Decimal(SubSeq(s, 1, Len(s) - 1)) + (IF s[Len(s)] = "1" THEN 1 ELSE 0)

JSONparse(s) ==
    IF s = <<"{", "}">> THEN [ok |-> TRUE, value |-> JsonObject]
    ELSE IF s # <<>> /\ \A i \in 1..Len(s) : s[i] = "1"
         THEN [ok |-> TRUE, value |-> JsonNumber(Decimal(s))]
         ELSE [ok |-> FALSE, value |-> JsonObject]

-----------------------------------------------------------------------------
(* Response chunks *)

TextPart(t) == [kind |-> "text", text |-> t, name |-> <<>>, args |-> JsonObject]
FunctionCallPart(n, a) == [kind |-> "functionCall", text |-> <<>>, name |-> n, args |-> a]

GenerateContentResponse(parts, fr) ==
    [parts |-> parts, role |-> "model", finishReason |-> fr, index |-> 0]

-----------------------------------------------------------------------------
(* The chunks the upstream sequence may yield *)

TextDeltas == {<<>>, <<"a">>, <<"\n">>, <<"b", "\n", "\n">>, Rep("x", 49), Rep("y", 50)}
\* finish_reason is null on every chunk but the last of a completion
FinishReasons == {NULL, "stop", "length"}
NameFragments == {<<"f">>, <<"g">>}
ArgumentFragments == {<<"{">>, <<"}">>, <<"1">>}
\* deltaToolCall.index (`index || 0` leaves a number as it is)
ToolIndexes == {0, 1}

\* one element of delta.tool_calls: the backend sends the name in one delta
\* and the argument fragments in later ones
ToolCallDeltas ==
    [index : ToolIndexes, name : NameFragments, arguments : {<<>>}]
    \cup [index : ToolIndexes, name : {<<>>}, arguments : ArgumentFragments]

\* a chunk carries a text delta or one tool-call delta, with or without a
\* finish signal
Chunks ==
    [content : TextDeltas, finish_reason : FinishReasons, tool_calls : {<<>>}]
    \cup [content : {<<>>}, finish_reason : FinishReasons,
          tool_calls : {<<d>> : d \in ToolCallDeltas}]

-----------------------------------------------------------------------------
(* convertStreamToGenerator: tool-call accumulation *)

\* an element of the sparse array: never assigned, or an accumulator (its id
\* and type are written once and never read)
Hole == [hole |-> TRUE, name |-> <<>>, arguments |-> <<>>]
NewAccumulator == [hole |-> FALSE, name |-> <<>>, arguments |-> <<>>]

\* the body of `for (const deltaToolCall of deltaToolCalls)`
ApplyDelta(tc, d) ==
    LET pos == d.index + 1
        ext == IF pos > Len(tc)
               THEN tc \o [i \in 1..(pos - Len(tc)) |-> Hole]
               ELSE tc
        created == IF ext[pos].hole THEN [ext EXCEPT ![pos] = NewAccumulator] ELSE ext
    IN  [created EXCEPT ![pos].name = @ \o d.name,
                        ![pos].arguments = @ \o d.arguments]

RECURSIVE ApplyDeltas(_, _)
ApplyDeltas(tc, ds) ==
    IF ds = <<>> THEN tc ELSE ApplyDeltas(ApplyDelta(tc, Head(ds)), Tail(ds))

-----------------------------------------------------------------------------
(* convertStreamToGenerator: the flush decision *)

shouldFlushAbove(buf, c, fr) ==
    \/ Len(buf) > FlushThreshold
    \/ /\ Len(buf) > 0
       /\ (IncludesParagraphBreak(c) \/ Truthy(fr))

shouldFlush(buf, c, fr) ==
    \/ Len(buf) >= FlushThreshold
    \/ /\ Len(buf) > 0
       /\ (IncludesParagraphBreak(c) \/ Truthy(fr))

-----------------------------------------------------------------------------
(* convertStreamToGenerator: the terminal tool-call chunk *)

\* `for (const toolCall of toolCalls)`: the parts pushed from position i on,
\* or the exception that stops the loop.  The iterator visits every index
\* below toolCalls.length, and reads undefined at an index never assigned.
RECURSIVE FunctionCallParts(_, _)
FunctionCallParts(tc, i) ==
    IF i > Len(tc) THEN [error |-> "", parts |-> <<>>]
    ELSE IF tc[i].hole THEN [error |-> "TypeError", parts |-> <<>>]
    ELSE IF tc[i].name = <<>> THEN FunctionCallParts(tc, i + 1)
    ELSE LET parsed == JSONparse(IF tc[i].arguments = <<>> THEN <<"{", "}">>
                                 ELSE tc[i].arguments)
             rest == FunctionCallParts(tc, i + 1)
         IN  IF ~parsed.ok THEN [error |-> "SyntaxError", parts |-> <<>>]
             ELSE [error |-> rest.error,
                   parts |-> IF rest.error = "" 
                             THEN <<FunctionCallPart(tc[i].name, parsed.value)>> \o rest.parts
                             ELSE <<>>]

\* position of the generator after the terminal tool-call chunk: `return`
AfterToolCallChunkContinue == "await"

AfterToolCallChunk == "returned"

-----------------------------------------------------------------------------
(* convertStreamToGenerator: one iteration of `for await (const chunk of stream)` *)

\* the text of the text parts of a sequence of responses, concatenated
RECURSIVE PartsText(_)
PartsText(ps) ==
    IF ps = <<>> THEN <<>>
    ELSE (IF Head(ps).kind = "text" THEN Head(ps).text ELSE <<>>) \o PartsText(Tail(ps))

RECURSIVE ResponsesText(_)
ResponsesText(rs) ==
    IF rs = <<>> THEN <<>> ELSE PartsText(Head(rs).parts) \o ResponsesText(Tail(rs))

\* two texts without their longest common prefix: a \o x = b \o y exactly
\* when the two texts left of a and b, followed by x and y, are equal
RECURSIVE CommonPrefixLen(_, _, _)
CommonPrefixLen(a, b, n) ==
    IF n < Len(a) /\ n < Len(b) /\ a[n + 1] = b[n + 1]
    THEN CommonPrefixLen(a, b, n + 1)
    ELSE n

StripCommonPrefix(a, b) ==
    LET n == CommonPrefixLen(a, b, 0)
    IN  [in |-> SubSeq(a, n + 1, Len(a)), out |-> SubSeq(b, n + 1, Len(b))]

\* `buffer = ''` after the flush
BufferAfterFlushKept(buf) == buf

BufferAfterFlush(buf) == <<>>

\* `if (finishReason) { lastFinishReason = finishReason; }`
recordFinishReasonOfChunk(last, fr) == fr

recordFinishReason(last, fr) == IF Truthy(fr) THEN fr ELSE last

Consume(chunk) ==
    LET buf1 == buffer \o chunk.content
        tc1 == ApplyDeltas(toolCalls, chunk.tool_calls)
        fr == chunk.finish_reason
        lfr1 == recordFinishReason(lastFinishReason, fr)
        flush == shouldFlush(buf1, chunk.content, fr) /\ Len(buf1) > 0
        flushed == IF flush
                   THEN <<GenerateContentResponse(<<TextPart(buf1)>>, convertFinishReason(lfr1))>>
                   ELSE <<>>
        buf2 == IF flush THEN BufferAfterFlush(buf1) ELSE buf1
        toolPath == Truthy(fr) /\ Len(tc1) > 0
        calls == FunctionCallParts(tc1, 1)
        toolParts == (IF buf2 # <<>> THEN <<TextPart(buf2)>> ELSE <<>>) \o calls.parts
        finishOnly == Truthy(fr) /\ Len(buf2) = 0 /\ Len(tc1) = 0
        out == IF toolPath
               THEN IF calls.error = ""
                    THEN flushed \o <<GenerateContentResponse(toolParts, convertFinishReason(fr))>>
                    ELSE flushed
               ELSE IF finishOnly
                    THEN flushed \o <<GenerateContentResponse(<<>>, convertFinishReason(fr))>>
                    ELSE flushed
        texts == StripCommonPrefix(textIn \o chunk.content, textOut \o ResponsesText(out))
    IN  /\ pc = "await"
        /\ nChunks < MaxChunks
        /\ Len(received) + Len(chunk.tool_calls) <= MaxToolDeltas
        /\ buffer' = buf2
        /\ toolCalls' = tc1
        /\ lastFinishReason' = lfr1
        /\ content' = chunk.content
        /\ finishReason' = fr
        /\ appended' = buf1
        /\ textIn' = texts.in
        /\ textOut' = texts.out
        /\ lastSignal' = IF fr \in {NULL, UNDEFINED, ""} THEN lastSignal ELSE fr
        /\ emitted' = out
        /\ received' = received \o chunk.tool_calls
        /\ nChunks' = nChunks + 1
        /\ pc' = IF toolPath
                 THEN IF calls.error = "" THEN AfterToolCallChunk ELSE "failed"
                 ELSE "await"
        /\ error' = IF toolPath THEN calls.error ELSE ""

\* the upstream sequence ends: the code after the loop
StreamEnd ==
    LET out == IF Len(buffer) > 0
               THEN <<GenerateContentResponse(<<TextPart(buffer)>>,
                                              convertFinishReason(lastFinishReason))>>
               ELSE <<>>
        texts == StripCommonPrefix(textIn, textOut \o ResponsesText(out))
    IN  /\ pc = "await"
        /\ emitted' = out
        /\ pc' = "ended"
        /\ textIn' = texts.in
        /\ textOut' = texts.out
        /\ UNCHANGED <<buffer, lastFinishReason, toolCalls, content, finishReason,
                       error, received, nChunks, appended, lastSignal>>

-----------------------------------------------------------------------------
(* convertToOpenAIMessages: the histories it is given *)

\* functionCall.args: the objects {} and {"x":1}
ArgValues == {"{}", "{x:1}"}

\* JSON.stringify of those objects, as a sequence of tokens
JSONstringify(a) ==
    IF a = "{}" THEN <<"{", "}">> ELSE <<"{", "\"x\"", ":", "1", "}">>

FunctionNames == {<<"f">>, <<"g">>}
PartTexts == {<<"a">>, <<"b">>}

\* a model turn holds text and function calls, a user turn text and
\* function responses
ModelParts ==
    [kind : {"text"}, text : PartTexts, name : {<<>>}, args : {"{}"}]
    \cup [kind : {"functionCall"}, text : {<<>>}, name : FunctionNames, args : ArgValues]
UserParts ==
    [kind : {"text"}, text : PartTexts, name : {<<>>}, args : {"{}"}]
    \cup [kind : {"functionResponse"}, text : {<<>>}, name : FunctionNames, args : {"{}"}]

SeqsOf(S, n) == UNION {[1..k -> S] : k \in 1..n}

\* the Contents of at most n Parts
Contents(n) ==
    [role : {"model"}, parts : SeqsOf(ModelParts, n)]
    \cup [role : {"user"}, parts : SeqsOf(UserParts, n)]

RECURSIVE CountParts(_)
CountParts(cs) == IF cs = <<>> THEN 0 ELSE Len(Head(cs).parts) + CountParts(Tail(cs))

-----------------------------------------------------------------------------
(* convertToOpenAIMessages: first pass *)

\* `${name}:${JSON.stringify(args || {})}`
KeyOf(part) == part.name \o <<":">> \o JSONstringify(part.args)

MapHas(map, key) == \E i \in 1..Len(map) : map[i].key = key
MapGet(map, key) == map[CHOOSE i \in 1..Len(map) : map[i].key = key].id

\* `call_${Date.now()}_${Math.random()...}`: an id no earlier entry has
FreshCallId(map) == Len(map) + 1

\* the first pass over one part
FirstPassPart(st, part) ==
    IF part.kind = "functionCall"
    THEN IF MapHas(st.map, KeyOf(part)) THEN st
         ELSE [st EXCEPT !.map = Append(@, [key |-> KeyOf(part), id |-> FreshCallId(@)])]
    ELSE IF part.kind = "functionResponse"
         THEN [st EXCEPT !.exists = @ \cup {part.name}]
         ELSE st

RECURSIVE FirstPassParts(_, _)
FirstPassParts(st, parts) ==
    IF parts = <<>> THEN st
    ELSE FirstPassParts(FirstPassPart(st, Head(parts)), Tail(parts))

RECURSIVE FirstPassContents(_, _)
FirstPassContents(st, cs) ==
    IF cs = <<>> THEN st
    ELSE FirstPassContents(FirstPassParts(st, Head(cs).parts), Tail(cs))

-----------------------------------------------------------------------------
(* convertToOpenAIMessages: second pass *)

NullContent == <<NULL>>
NoCallId == 0

\* key.split(':')[0]
RECURSIVE SplitFirst(_)
SplitFirst(key) ==
    IF key = <<>> \/ Head(key) = ":" THEN <<>>
    ELSE <<Head(key)>> \o SplitFirst(Tail(key))

\* the loop over toolCallIdMap.entries(): the id of the first entry whose
\* key starts with the response's function name
RECURSIVE MatchingCallId(_, _)
MatchingCallId(map, name) ==
    IF map = <<>> THEN NoCallId
    ELSE IF SplitFirst(Head(map).key) = name THEN Head(map).id
    ELSE MatchingCallId(Tail(map), name)

\* `[Function call: ${name}(${JSON.stringify(args)})]`
FunctionCallText(part) ==
    <<"[Function call: ">> \o part.name \o <<"(">> \o JSONstringify(part.args) \o <<")]">>

Message(role, text, calls, callId, name) ==
    [role |-> role, content |-> text, tool_calls |-> calls,
     tool_call_id |-> callId, name |-> name]

\* functionResponseExists.has(part.functionCall.name || '')
HasRecordedResponseAlways(name) == TRUE

HasRecordedResponse(name) == name \in functionResponseExists

\* the body of `for (const part of content.parts || [])`, for part j
PartStep(acc, part, j) ==
    IF part.kind = "text" /\ part.text # <<>>
    THEN [acc EXCEPT !.textContent = @ \o part.text]
    ELSE IF part.kind = "functionCall"
    THEN IF HasRecordedResponse(part.name)
         THEN [acc EXCEPT !.functionCalls =
                  Append(@, [id |-> MapGet(toolCallIdMap, KeyOf(part)),
                             type |-> "function",
                             name |-> part.name,
                             arguments |-> JSONstringify(part.args)])]
         ELSE [acc EXCEPT !.textContent = @ \o FunctionCallText(part)]
    ELSE IF part.kind = "functionResponse"
    THEN IF MatchingCallId(toolCallIdMap, part.name) # NoCallId
         THEN [acc EXCEPT !.functionResponses =
                  Append(@, Message("tool", JSONstringify("{}"), <<>>,
                                    MatchingCallId(toolCallIdMap, part.name), part.name)),
                          !.responseParts = Append(@, j)]
         ELSE acc
    ELSE acc

RECURSIVE PartLoop(_, _, _)
PartLoop(acc, parts, j) ==
    IF j > Len(parts) THEN acc
    ELSE PartLoop(PartStep(acc, parts[j], j), parts, j + 1)

RoleOf(c) ==
    IF c.role = "user" THEN "user" ELSE IF c.role = "model" THEN "assistant" ELSE "system"

\* what the second pass pushes for one Content: the messages, and for each
\* the part it was built from (0: from the Content as a whole)
ConvertContent(c) ==
    LET acc == PartLoop([functionCalls |-> <<>>, functionResponses |-> <<>>,
                         responseParts |-> <<>>, textContent |-> <<>>], c.parts, 1)
    IN  IF Len(acc.functionCalls) > 0
        THEN [messages |-> <<Message(RoleOf(c),
                                     IF acc.textContent # <<>> THEN acc.textContent
                                     ELSE NullContent,
                                     acc.functionCalls, NoCallId, <<>>)>>,
              parts |-> <<0>>]
        ELSE IF Len(acc.functionResponses) > 0
        THEN [messages |-> acc.functionResponses, parts |-> acc.responseParts]
        ELSE IF acc.textContent # <<>>
        THEN [messages |-> <<Message(RoleOf(c), acc.textContent, <<>>, NoCallId, <<>>)>>,
              parts |-> <<0>>]
        ELSE [messages |-> <<>>, parts |-> <<>>]

-----------------------------------------------------------------------------
(* convertToOpenAIMessages: the steps *)

\* the caller adds one turn to the history it will convert
addHistory(c) ==
    /\ mpc = "history"
    /\ contents' = Append(contents, c)
    /\ UNCHANGED <<mpc, toolCallIdMap, functionResponseExists, messages, origin, ci>>

FirstPass ==
    LET st == FirstPassContents([map |-> <<>>, exists |-> {}], contents)
    IN  /\ mpc = "history"
        /\ toolCallIdMap' = st.map
        /\ functionResponseExists' = st.exists
        /\ mpc' = "second"
        /\ UNCHANGED <<contents, messages, origin, ci>>

SecondPass ==
    LET built == ConvertContent(contents[ci + 1])
    IN  /\ mpc = "second"
        /\ ci < Len(contents)
        /\ messages' = messages \o built.messages
        /\ origin' = origin \o [k \in 1..Len(built.parts) |->
                                   [content |-> ci + 1, part |-> built.parts[k]]]
        /\ ci' = ci + 1
        /\ UNCHANGED <<mpc, contents, toolCallIdMap, functionResponseExists>>

ReturnMessages ==
    /\ mpc = "second"
    /\ ci = Len(contents)
    /\ mpc' = "done"
    /\ UNCHANGED <<contents, toolCallIdMap, functionResponseExists, messages, origin, ci>>

MessagesInit ==
    /\ mpc = "history"
    /\ contents = <<>>
    /\ toolCallIdMap = <<>>
    /\ functionResponseExists = {}
    /\ messages = <<>>
    /\ origin = <<>>
    /\ ci = 0

-----------------------------------------------------------------------------
(* convertToGeminiResponse *)

ResponseFinishReasons ==
    {UNDEFINED, NULL, "", "stop", "length", "max_tokens", "content_filter",
     "tool_calls", "function_call", "weird_reason"}

ResponseToolCalls ==
    [type : {"function"}, name : FunctionNames,
     arguments : {<<>>, <<"{", "}">>, <<"1">>, <<"}">>}]

NoUsage == [prompt_tokens |-> 0, completion_tokens |-> 0, total_tokens |-> 0, present |-> FALSE]
SomeUsage == [prompt_tokens |-> 2, completion_tokens |-> 1, total_tokens |-> 3, present |-> TRUE]

Responses ==
    [content : {<<>>, <<"a">>},
     tool_calls : UNION {[1..k -> ResponseToolCalls] : k \in 0..MaxResponseCalls},
     finish_reason : ResponseFinishReasons,
     usage : {NoUsage, SomeUsage}]

\* `for (const toolCall of toolCalls)` of convertToGeminiResponse
RECURSIVE ResponseCallParts(_)
ResponseCallParts(tcs) ==
    IF tcs = <<>> THEN [error |-> "", parts |-> <<>>]
    ELSE LET parsed == JSONparse(IF Head(tcs).arguments = <<>> THEN <<"{", "}">>
                                 ELSE Head(tcs).arguments)
             rest == ResponseCallParts(Tail(tcs))
         IN  IF ~parsed.ok THEN [error |-> "SyntaxError", parts |-> <<>>]
             ELSE [error |-> rest.error,
                   parts |-> IF rest.error = ""
                             THEN <<FunctionCallPart(Head(tcs).name, parsed.value)>> \o rest.parts
                             ELSE <<>>]

convertToGeminiResponse ==
    LET calls == ResponseCallParts(response.tool_calls)
        parts == (IF response.content # <<>> THEN <<TextPart(response.content)>> ELSE <<>>)
                 \o calls.parts
    IN  /\ rpc = "start"
        /\ IF calls.error = ""
           THEN /\ rpc' = "done"
                /\ geminiResponse' =
                     [candidate |-> GenerateContentResponse(
                                        parts, convertFinishReason(response.finish_reason)),
                      usageMetadata |->
                          [promptTokenCount |-> response.usage.prompt_tokens,
                           candidatesTokenCount |-> response.usage.completion_tokens,
                           totalTokenCount |-> response.usage.total_tokens]]
           ELSE /\ rpc' = "failed"
                /\ geminiResponse' = geminiResponse
        /\ UNCHANGED response

ResponseInit ==
    /\ rpc = "start"
    /\ response \in Responses
    /\ geminiResponse = <<>>

StreamInit ==
    /\ pc = "await"
    /\ buffer = <<>>
    /\ lastFinishReason = UNDEFINED
    /\ toolCalls = <<>>
    /\ content = <<>>
    /\ finishReason = UNDEFINED
    /\ emitted = <<>>
    /\ error = ""
    /\ received = <<>>
    /\ nChunks = 0
    /\ appended = <<>>
    /\ lastSignal = UNDEFINED
    /\ textIn = <<>>
    /\ textOut = <<>>

StreamIdle ==
    /\ pc = "idle"
    /\ buffer = <<>>
    /\ lastFinishReason = UNDEFINED
    /\ toolCalls = <<>>
    /\ content = <<>>
    /\ finishReason = UNDEFINED
    /\ emitted = <<>>
    /\ error = ""
    /\ received = <<>>
    /\ nChunks = 0
    /\ appended = <<>>
    /\ lastSignal = UNDEFINED
    /\ textIn = <<>>
    /\ textOut = <<>>

MessagesIdle ==
    /\ mpc = "idle"
    /\ contents = <<>>
    /\ toolCallIdMap = <<>>
    /\ functionResponseExists = {}
    /\ messages = <<>>
    /\ origin = <<>>
    /\ ci = 0

ResponseIdle ==
    /\ rpc = "idle"
    /\ response = <<>>
    /\ geminiResponse = <<>>

Init == StreamInit /\ MessagesIdle /\ ResponseIdle

Next ==
    \/ \E chunk \in Chunks : Consume(chunk) /\ UNCHANGED <<messageVars, responseVars>>
    \/ StreamEnd /\ UNCHANGED <<messageVars, responseVars>>

Spec == Init /\ [][Next]_vars

InitMessages == StreamIdle /\ MessagesInit /\ ResponseIdle

NextMessages ==
    \/ \E c \in Contents(MaxParts - CountParts(contents)) :
          addHistory(c) /\ UNCHANGED <<streamVars, responseVars>>
    \/ FirstPass /\ UNCHANGED <<streamVars, responseVars>>
    \/ SecondPass /\ UNCHANGED <<streamVars, responseVars>>
    \/ ReturnMessages /\ UNCHANGED <<streamVars, responseVars>>

SpecMessages == InitMessages /\ [][NextMessages]_vars

InitResponse == StreamIdle /\ MessagesIdle /\ ResponseInit

NextResponse == convertToGeminiResponse /\ UNCHANGED <<streamVars, messageVars>>

SpecResponse == InitResponse /\ [][NextResponse]_vars

-----------------------------------------------------------------------------
(* Properties of convertStreamToGenerator *)

\* the last step was an iteration of the loop
ChunkHandled == nChunks > 0 /\ pc # "ended"

HasFunctionCall(r) == \E j \in 1..Len(r.parts) : r.parts[j].kind = "functionCall"
HasText(r) == \E j \in 1..Len(r.parts) : r.parts[j].kind = "text"
IsFunctionCall(p) == p.kind = "functionCall"

ToolCallChunkEmitted == \E i \in 1..Len(emitted) : HasFunctionCall(emitted[i])

RECURSIVE AllParts(_)
AllParts(rs) == IF rs = <<>> THEN <<>> ELSE Head(rs).parts \o AllParts(Tail(rs))

\* concatenation, in arrival order, of the fragments received for index idx
RECURSIVE NameReceived(_, _)
NameReceived(ds, idx) ==
    IF ds = <<>> THEN <<>>
    ELSE (IF Head(ds).index = idx THEN Head(ds).name ELSE <<>>) \o NameReceived(Tail(ds), idx)

RECURSIVE ArgumentsReceived(_, _)
ArgumentsReceived(ds, idx) ==
    IF ds = <<>> THEN <<>>
    ELSE (IF Head(ds).index = idx THEN Head(ds).arguments ELSE <<>>)
         \o ArgumentsReceived(Tail(ds), idx)

LastToolIndex == CHOOSE m \in ToolIndexes : \A i \in ToolIndexes : i <= m

ArgumentsText(idx) ==
    IF ArgumentsReceived(received, idx) = <<>> THEN <<"{", "}">>
    ELSE ArgumentsReceived(received, idx)

\* the function-call parts the named accumulators stand for, from index idx on
RECURSIVE ExpectedCalls(_)
ExpectedCalls(idx) ==
    IF idx > LastToolIndex THEN <<>>
    ELSE (IF NameReceived(received, idx) = <<>> THEN <<>>
          ELSE <<FunctionCallPart(NameReceived(received, idx),
                                  JSONparse(ArgumentsText(idx)).value)>>)
         \o ExpectedCalls(idx + 1)

\* every named accumulator's argument text is JSON
ArgumentsAreJson ==
    \A idx \in ToolIndexes :
        NameReceived(received, idx) # <<>> => JSONparse(ArgumentsText(idx)).ok

\* C1: no function-call part is emitted while handling a chunk without a
\* finish signal; on a chunk with a finish signal the named accumulators
\* yield, in index order, one function-call part each, with the name and the
\* parsed arguments concatenated from the fragments received for that index.
\* (Stated for argument texts that are JSON: where JSON.parse has no value
\* the claim is given nothing to say.)
C1_ReassembledOnFinish ==
    ChunkHandled =>
        /\ ~Truthy(finishReason) => ~ToolCallChunkEmitted
        /\ (Truthy(finishReason) /\ ArgumentsAreJson) =>
               SelectSeq(AllParts(emitted), IsFunctionCall) = ExpectedCalls(0)

\* C2: once a response with function-call parts has been emitted, no chunk
\* is consumed and no response is emitted any more.
C2_NothingAfterToolCallChunk ==
    [][ToolCallChunkEmitted => (nChunks' = nChunks /\ emitted' = emitted /\ pc' = pc)]_vars

C2_Witness ==
    /\ ToolCallChunkEmitted
    /\ pc = "returned"
    /\ nChunks < MaxChunks
    /\ Len(received) < MaxToolDeltas

\* C3: a text-bearing response is emitted while handling a chunk exactly when
\* the buffer, after the chunk's text is appended, is non-empty and has 100
\* characters or more, or the chunk's text has a paragraph break, or the
\* chunk has a finish signal; it holds the whole buffer as its one part, and
\* the buffer is empty afterwards.
C3_FlushRule ==
    ChunkHandled =>
        LET due == /\ Len(appended) > 0
                   /\ \/ Len(appended) >= 100
                      \/ IncludesParagraphBreak(content)
                      \/ Truthy(finishReason)
            texts == SelectSeq(emitted, HasText)
        IN  /\ (texts # <<>>) <=> due
            /\ due => /\ Len(texts) = 1
                      /\ texts[1].parts = <<TextPart(appended)>>
                      /\ emitted[1] = texts[1]
                      /\ buffer = <<>>
            /\ ~due => buffer = appended

\* exactly 100 characters, gathered over several chunks, flushed at the 100th
C3_Witness ==
    /\ ChunkHandled
    /\ Len(appended) = 100
    /\ Len(content) < 100
    /\ ~IncludesParagraphBreak(content)
    /\ ~Truthy(finishReason)
    /\ Len(emitted) = 1
    /\ emitted[1].parts = <<TextPart(appended)>>
    /\ buffer = <<>>

\* C8: with no tool-call accumulator, a chunk with a finish signal produces
\* exactly one response, carrying the mapped finish reason: the flushed text
\* if text was pending, the empty parts list if the buffer was empty.
C8_OneResponsePerFinish ==
    (ChunkHandled /\ Truthy(finishReason) /\ toolCalls = <<>>) =>
        /\ Len(emitted) = 1
        /\ emitted[1].finishReason = convertFinishReason(finishReason)
        /\ emitted[1].parts = IF appended # <<>> THEN <<TextPart(appended)>> ELSE <<>>

\* C9: whatever indexes the backend reports, positions skipped included, the
\* finish signal produces the final response with one function-call part per
\* named accumulator, and the generator does not fail on an unused position.
C9_SparseAccumulators ==
    (ChunkHandled /\ Truthy(finishReason) /\ toolCalls # <<>>) =>
        /\ error # "TypeError"
        /\ error = "" =>
               /\ pc = "returned"
               /\ emitted # <<>>
               /\ Len(SelectSeq(emitted[Len(emitted)].parts, IsFunctionCall))
                    = Cardinality({i \in 1..Len(toolCalls) : toolCalls[i].name # <<>>})

-----------------------------------------------------------------------------
(* Properties of convertToOpenAIMessages *)

PartRefs == {<<c, p>> \in (1..Len(contents)) \X (1..MaxParts) : p <= Len(contents[c].parts)}
PartAt(r) == contents[r[1]].parts[r[2]]
Before(r1, r2) == r1[1] < r2[1] \/ (r1[1] = r2[1] /\ r1[2] < r2[2])

\* 1 for the first part of its kind and function name in the history, 2 for
\* the second, ...
Rank(r) ==
    1 + Cardinality({q \in PartRefs : /\ PartAt(q).kind = PartAt(r).kind
                                      /\ PartAt(q).name = PartAt(r).name
                                      /\ Before(q, r)})

\* the function-response at r answers the function call at q: the n-th
\* response of a function name answers the n-th call of that name
Answers(r, q) ==
    /\ PartAt(r).kind = "functionResponse"
    /\ PartAt(q).kind = "functionCall"
    /\ PartAt(q).name = PartAt(r).name
    /\ Rank(q) = Rank(r)

HasResponse(name) ==
    \E r \in PartRefs : PartAt(r).kind = "functionResponse" /\ PartAt(r).name = name

\* the tool-call requests of the output: <<message, position in tool_calls>>
CallEntries ==
    {<<m, k>> \in (1..Len(messages)) \X (1..MaxParts) : k <= Len(messages[m].tool_calls)}
EntryAt(e) == messages[e[1]].tool_calls[e[2]]

Contains(hay, needle) ==
    \E i \in 0..(Len(hay) - Len(needle)) : SubSeq(hay, i + 1, i + Len(needle)) = needle

\* the needles occur in hay one after the other, from position `from` on
RECURSIVE InOrder(_, _, _)
InOrder(hay, needles, from) ==
    IF needles = <<>> THEN TRUE
    ELSE \E i \in from..(Len(hay) - Len(Head(needles)) + 1) :
            /\ SubSeq(hay, i, i + Len(Head(needles)) - 1) = Head(needles)
            /\ InOrder(hay, Tail(needles), i + Len(Head(needles)))

IsTextPart(part) == part.kind = "text"
RECURSIVE TextsOf(_)
TextsOf(parts) ==
    IF parts = <<>> THEN <<>>
    ELSE (IF IsTextPart(Head(parts)) THEN <<Head(parts).text>> ELSE <<>>) \o TextsOf(Tail(parts))

C5_ResponseCarriesCallId ==
    mpc = "done" =>
        /\ \A e1, e2 \in CallEntries :
              (EntryAt(e1).name = EntryAt(e2).name
                 /\ EntryAt(e1).arguments = EntryAt(e2).arguments)
              => EntryAt(e1).id = EntryAt(e2).id
        /\ \A t \in 1..Len(messages) : \A q \in PartRefs : \A e \in CallEntries :
              (/\ messages[t].role = "tool"
               /\ Answers(<<origin[t].content, origin[t].part>>, q)
               /\ EntryAt(e).name = PartAt(q).name
               /\ EntryAt(e).arguments = JSONstringify(PartAt(q).args))
              => messages[t].tool_call_id = EntryAt(e).id

\* C7: the messages are in the order of the Contents they were built from,
\* and the texts of a Content's text Parts are, in Part order, in the text of
\* a message built from that Content.
C7_TextPreserved ==
    mpc = "done" =>
        /\ \A i, j \in 1..Len(messages) : i < j => origin[i].content <= origin[j].content
        /\ \A c \in 1..Len(contents) :
              TextsOf(contents[c].parts) # <<>> =>
                  \E m \in 1..Len(messages) :
                      /\ origin[m].content = c
                      /\ InOrder(messages[m].content, TextsOf(contents[c].parts), 1)

\* C10: every call id in the tool_calls of an output message is the
\* tool_call_id of an output message of role 'tool'.
C10_CallsArePaired ==
    mpc = "done" =>
        \A e \in CallEntries :
            \E t \in 1..Len(messages) :
                /\ messages[t].role = "tool"
                /\ messages[t].tool_call_id = EntryAt(e).id

-----------------------------------------------------------------------------
(* Properties of convertFinishReason *)

\* C6: convertFinishReason maps 'stop' to STOP, 'length' and 'max_tokens' to
\* MAX_TOKENS, 'content_filter' to SAFETY, 'tool_calls' and 'function_call'
\* to STOP, null and undefined to FINISH_REASON_UNSPECIFIED and every other
\* string to STOP, and never fails: a conversion fails on the arguments of a
\* tool call only.
C6_FinishReasonTable ==
    /\ rpc = "done" =>
          LET fr == response.finish_reason
              got == geminiResponse.candidate.finishReason
          IN  /\ fr = "stop" => got = "STOP"
              /\ fr \in {"length", "max_tokens"} => got = "MAX_TOKENS"
              /\ fr = "content_filter" => got = "SAFETY"
              /\ fr \in {"tool_calls", "function_call"} => got = "STOP"
              /\ fr \in {NULL, UNDEFINED} => got = "FINISH_REASON_UNSPECIFIED"
              /\ fr \notin {"stop", "length", "max_tokens", "content_filter", "tool_calls",
                            "function_call", NULL, UNDEFINED} => got = "STOP"
    /\ rpc = "failed" =>
          \E k \in 1..Len(response.tool_calls) :
              response.tool_calls[k].arguments \notin {<<>>, <<"{", "}">>, <<"1">>}

C6_Witness ==
    /\ rpc = "done"
    /\ response.finish_reason = "weird_reason"
    /\ geminiResponse.candidate.finishReason = "STOP"

-----------------------------------------------------------------------------
(* Finish reasons and text of the stream *)

\* the target value of a finish signal of the stream, UNDEFINED for none yet
SignalValue(sig) ==
    IF sig = UNDEFINED THEN "FINISH_REASON_UNSPECIFIED"
    ELSE IF sig = "length" THEN "MAX_TOKENS"
    ELSE "STOP"

\* C11: every emitted text chunk carries the mapping of the latest finish
\* signal observed when it is emitted: FINISH_REASON_UNSPECIFIED if there was
\* none so far, also for text flushed by a later chunk without a finish
\* signal and for the flush after the upstream sequence ends.
C11_TextCarriesLatestSignal ==
    \A i \in 1..Len(emitted) :
        HasText(emitted[i]) => emitted[i].finishReason = SignalValue(lastSignal)

\* text flushed by a chunk without a finish signal, after an earlier finish
\* signal
C11_Witness ==
    /\ ChunkHandled
    /\ ~Truthy(finishReason)
    /\ lastSignal = "length"
    /\ emitted # <<>>
    /\ HasText(emitted[1])
    /\ emitted[1].finishReason = "MAX_TOKENS"

\* C12: once the output sequence has finished, by the end of the upstream
\* sequence or by the terminal tool-call chunk, the emitted text parts,
\* concatenated in emission order, are the consumed text deltas, concatenated
\* in arrival order (nothing of either is left once their common prefix is
\* taken away); and while the generator waits for the next chunk the buffer
\* holds fewer than 100 characters.
C12_TextConserved ==
    /\ pc \in {"ended", "returned"} => (textIn = <<>> /\ textOut = <<>>)
    /\ pc = "await" => Len(buffer) < 100

\* the output finished by the terminal tool-call chunk, the text flushed
\* before it
C12_Witness ==
    /\ pc = "returned"
    /\ Len(emitted) = 2
    /\ HasText(emitted[1])
    /\ Len(appended) > Len(content)
    /\ HasFunctionCall(emitted[2])
    /\ textIn = <<>>
    /\ textOut = <<>>

====
